---- MODULE Spec2Model ----
(***************************************************************************)
(* The three Dataplex data-scan tools of the toolbox:                      *)
(*   bigquery-get-data-scan-info, bigquery-list-data-scans and             *)
(*   bigquery-data-profile.                                                *)
(* One invocation of Tool.Invoke is followed step by step: source lookup,  *)
(* request construction, client acquisition, optional per-caller           *)
(* re-authentication, the remote call(s) and the mapping of the response.  *)
(* The remote service, the source registry and the token parser are the    *)
(* environment: each of their calls may succeed or fail.                   *)
(*                                                                         *)
(* Go pointers and optional values are sequences of length 0 (nil) or 1.   *)
(***************************************************************************)
EXTENDS Integers, Sequences, FiniteSets, TLC

\* ------------------------------------------------------------- bounds
\* The largest number of data scans the remote iterator yields in one listing.
MaxScans == 3

\* ------------------------------------------------------------ integers
\* Largest value of Go's int32.
MaxInt32 == 2147483647
MinInt32 == -MaxInt32 - 1

\* A Go int (64 bits) v is written [q, r] with v = q * 2^32 + r and r in the
\* int32 range: this representation is unique, and r is the two's-complement
\* truncation of v to 32 bits.
Int64(q, r) == [q |-> q, r |-> r]

\* int32(x) of a Go int: the low 32 bits, read as a signed number.
ToInt32(x) == x.r

\* The int32 n, widened back to a Go int.
FromInt32(n) == Int64(0, n)

\* ---------------------------------------------------------- the tools
GetInfo == "bigquery-get-data-scan-info"
ListScans == "bigquery-list-data-scans"
Profile == "bigquery-data-profile"
Tools == {GetInfo, ListScans, Profile}

\* pageSize's default, as Config.Initialize declares it.
DefaultPageSize == 5

\* An optional argument of the raw invocation data: <<>> when the caller does
\* not supply it, <<v>> when the caller supplies v.
WithDefault(arg, d) == IF arg = <<>> THEN d ELSE arg[1]

\* The parameter map of bigquery-list-data-scans for the raw data d: location
\* is required, the other three carry their declared defaults.
ListParams(d) ==
    [location |-> d.location,
     project  |-> WithDefault(d.project, ""),
     state    |-> WithDefault(d.state, ""),
     pageSize |-> WithDefault(d.pageSize, Int64(0, DefaultPageSize))]

\* The parameter map of bigquery-get-data-scan-info.
GetInfoParams(d) == [name |-> d.name]

\* ----------------------------------------------------- sampled inputs
Names == {"", "projects/p1/locations/us/dataScans/s1", "projects/p1/locations/us/dataScans/s2"}
Locations == {"", "us"}
Projects == {"", "p1"}
States == {"", "ACTIVE"}
SourceProjects == {"src-a", "src-b"}

\* Page sizes: small ones, zero, the largest int32, and Go ints beyond the int32
\* range: 2^32+5, 2^31 and -2^31-1.
PageSizes ==
    {Int64(0, 1), Int64(0, 2), Int64(0, 0), Int64(0, MaxInt32),
     Int64(1, 5), Int64(1, MinInt32), Int64(-1, MaxInt32)}

Optional(S) == {<<>>} \cup {<<v>> : v \in S}

GetInfoData == [name : Names]
ListData ==
    [location : Locations, project : Optional(Projects),
     state : Optional(States), pageSize : Optional(PageSizes)]
\* bigquery-data-profile declares no parameter: its map is empty.
ProfileData == {<<>>}

DataOf(t) ==
    CASE t = GetInfo -> GetInfoData
      [] t = ListScans -> ListData
      [] t = Profile -> ProfileData

\* The source the resource manager holds under the tool's source name: ok is
\* whether GetCompatibleSource finds a compatible source.
Sources ==
    [ok : {TRUE}, project : SourceProjects, useClientAuth : BOOLEAN]
        \cup {[ok |-> FALSE, project |-> "src-a", useClientAuth |-> FALSE]}

\* The caller's Authorization header: a scheme and a credential.
AccessTokens ==
    {[scheme |-> "Bearer", cred |-> "tokA"], [scheme |-> "Bearer", cred |-> "tokB"],
     [scheme |-> "Basic", cred |-> "tokA"]}

\* ParseBearerToken: the credential of a bearer header, an error otherwise.
ParseBearerToken(tok) ==
    IF tok.scheme = "Bearer" THEN [ok |-> TRUE, tokenStr |-> tok.cred]
    ELSE [ok |-> FALSE, tokenStr |-> ""]

\* ------------------------------------------------------------ clients
DefaultClient == [kind |-> "default", token |-> ""]
PerCallerClient(tokenStr) == [kind |-> "per-caller", token |-> tokenStr]

\* ----------------------------------------------------------- requests
\* GetDataScanRequest of bigquery-get-data-scan-info.
GetInfoRequest(p) == [Name |-> p.name, View |-> "FULL"]

\* The project parameter is not consulted.
ListProjectOfSource(p, srcProject) == srcProject

\* The project of the listing: the parameter, or the source's project.
ListProject(p, srcProject) == IF p.project = "" THEN srcProject ELSE p.project

\* The parent resource of the listing.
ListParent(p, srcProject) ==
    "projects/" \o ListProject(p, srcProject) \o "/locations/" \o p.location

\* The filter is written whether or not a state is given.
ListFilterAlways(p) == "state=\"" \o p.state \o "\""

\* The filter of the listing: none unless a state is given.
ListFilter(p) == IF p.state # "" THEN "state=\"" \o p.state \o "\"" ELSE ""

\* The page size of the listing: the parameter converted to int32.
ListPageSize(p) == ToInt32(p.pageSize)

\* ListDataScansRequest of bigquery-list-data-scans.
ListRequest(p, srcProject) ==
    [Parent   |-> ListParent(p, srcProject),
     OrderBy  |-> "create_time desc",
     PageSize |-> ListPageSize(p),
     Filter   |-> ListFilter(p)]

\* CreateDataScanRequest of bigquery-data-profile: every field is a literal.
ProfileRequest ==
    [Parent      |-> "projects/autopush-cmek-test-project-1/locations/us-west1",
     DataScanId  |-> "testscan1",
     DisplayName |-> "TestScan",
     Resource    |-> "//bigquery.googleapis.com/projects/autopush-cmek-test-project-1/datasets/TestDSUsWest1/tables/TestTabUsWest1",
     Trigger     |-> "OnDemand",
     SamplingPercent |-> 10]

\* The request a tool builds for raw data d and a source of project srcProject.
BuildRequest(t, d, srcProject) ==
    CASE t = GetInfo -> GetInfoRequest(GetInfoParams(d))
      [] t = ListScans -> ListRequest(ListParams(d), srcProject)
      [] t = Profile -> ProfileRequest

\* -------------------------------------------------- the remote service
\* protobuf timestamps of the sample scans, seconds and nanoseconds.
Timestamp(s, n) == [seconds |-> s, nanos |-> n]

\* Timestamp.AsTime: the instant of a timestamp, the Unix epoch for nil.
AsTime(ts) ==
    IF ts = <<>> THEN [sec |-> 0, nsec |-> 0]
    ELSE [sec |-> ts[1].seconds, nsec |-> ts[1].nanos]

\* State.String: the name of a DataScan state.
StateString(st) ==
    CASE st = 0 -> "STATE_UNSPECIFIED"
      [] st = 1 -> "ACTIVE"
      [] st = 2 -> "CREATING"
      [] st = 3 -> "DELETING"
      [] st = 4 -> "ACTION_REQUIRED"

\* The data scans the service may hold. data is the scan's DataSource (nil, an
\* entity or a resource); profile is its DataProfileResult (nil or a result).
RemoteScans ==
    {[name |-> "projects/p1/locations/us/dataScans/s1", displayName |-> "Scan one",
      createTime |-> <<Timestamp(1700000000, 5)>>, state |-> 1,
      data |-> <<[kind |-> "resource", value |-> "//bigquery.googleapis.com/projects/p1/datasets/d/tables/t"]>>,
      profile |-> <<[rowCount |-> 7]>>],
     [name |-> "projects/p1/locations/us/dataScans/s2", displayName |-> "",
      createTime |-> <<Timestamp(1600000000, 0)>>, state |-> 2,
      data |-> <<[kind |-> "entity", value |-> "projects/p1/locations/us/lakes/l/zones/z/entities/e"]>>,
      profile |-> <<>>],
     [name |-> "projects/p1/locations/us/dataScans/s3", displayName |-> "Scan three",
      createTime |-> <<>>, state |-> 4,
      data |-> <<>>,
      profile |-> <<>>]}

\* The errors a remote call may return: gRPC status errors and others.
RemoteErrors ==
    {[status |-> TRUE, msg |-> "permission denied"],
     [status |-> FALSE, msg |-> "connection reset"]}

\* The value of the data source whatever its kind.
GetResourceOfAnyKind(scan) == IF scan.data # <<>> THEN scan.data[1].value ELSE ""

\* DataScan.GetData().GetResource(): "" for a nil source or an entity source.
GetResource(scan) ==
    IF scan.data # <<>> /\ scan.data[1].kind = "resource" THEN scan.data[1].value ELSE ""

\* ------------------------------------------------------------ results
\* The Response of bigquery-get-data-scan-info for the fetched scan.
GetInfoResponse(scan) ==
    [DataScanName |-> scan.name,
     DisplayName  |-> scan.displayName,
     DataSource   |-> GetResource(scan),
     Result       |-> scan.profile]

\* The DataScanItem of bigquery-list-data-scans for a yielded scan.
DataScanItem(scan) ==
    [Name       |-> scan.name,
     CreateTime |-> AsTime(scan.createTime),
     State      |-> StateString(scan.state)]

\* fmt's %q of a string.
Quote(s) == "\"" \o s \o "\""

\* ------------------------------------------------------------- errors
ErrSourceLookup == "no compatible source"
ErrNameRequired == "name is required."
ErrLocationRequired == "location parameter is required"
ErrParseToken == "error parsing access token: authorization header must be a bearer token"
ErrCreateClient == "error creating client from OAuth access token: client creation failed"

\* The error of a failed GetDataScan: the status message is appended for a
\* gRPC status error only.
GetInfoCallError(e, srcProject) ==
    IF e.status
    THEN "failed to get data scan for project " \o Quote(srcProject) \o " with error: " \o e.msg
    ELSE "failed to get data scan for project " \o Quote(srcProject)

\* The error of a failed iterator.Next.
ListIterError(e) == "iterator.Next: " \o e.msg

\* The error of a failed CreateDataScan or of a failed wait on its operation.
ProfileCallError(e, srcProject) ==
    "failed to create data scan for project " \o Quote(srcProject)

\* -------------------------------------------------------- ExtractType
\* typeMap[key]: the label of a known key, "" for a key the map does not hold.
TypeMap(key) ==
    CASE key = "bigquery-connection" -> "CONNECTION"
      [] key = "bigquery-data-policy" -> "POLICY"
      [] key = "bigquery-dataset" -> "DATASET"
      [] key = "bigquery-model" -> "MODEL"
      [] key = "bigquery-routine" -> "ROUTINE"
      [] key = "bigquery-table" -> "TABLE"
      [] key = "bigquery-view" -> "VIEW"
      [] OTHER -> ""

\* The byte of s at the 0-based index i.
ByteAt(s, i) == SubSeq(s, i + 1, i + 1)

\* The 0-based index of the first "/" of s, -1 when s has none.
FirstIndexSlash(s) ==
    IF \E i \in 0..(Len(s) - 1) : ByteAt(s, i) = "/"
    THEN CHOOSE i \in 0..(Len(s) - 1) :
           /\ ByteAt(s, i) = "/"
           /\ \A j \in 0..(i - 1) : ByteAt(s, j) # "/"
    ELSE -1

\* strings.LastIndex(s, "/"): the 0-based index of the last "/" of s, -1 when
\* s has none.
LastIndexSlash(s) ==
    IF \E i \in 0..(Len(s) - 1) : ByteAt(s, i) = "/"
    THEN CHOOSE i \in 0..(Len(s) - 1) :
           /\ ByteAt(s, i) = "/"
           /\ \A j \in (i + 1)..(Len(s) - 1) : ByteAt(s, j) # "/"
    ELSE -1

\* s[from:], the bytes of s from the 0-based index from on.
SliceFrom(s, from) == SubSeq(s, from + 1, Len(s))

\* ExtractType(resourceString)
ExtractType(s) ==
    LET lastIndex == LastIndexSlash(s)
    IN IF lastIndex = -1 THEN s ELSE TypeMap(SliceFrom(s, lastIndex + 1))

\* The sampled arguments of ExtractType: a prefix that is empty or ends in "/",
\* followed by a last segment: a known key, none, or an unknown one.
ResourcePrefixes ==
    {"", "/", "x/y/", "bigquery-table/", "bigquery-view/bigquery-model/",
     "//bigquery.googleapis.com/projects/p1/"}
LastSegments ==
    {"", "bigquery-connection", "bigquery-data-policy", "bigquery-dataset",
     "bigquery-model", "bigquery-routine", "bigquery-table", "bigquery-view",
     "bigquery-tables", "BIGQUERY-TABLE", "TABLE", "table"}
ResourceStrings == {p \o l : p \in ResourcePrefixes, l \in LastSegments}

VARIABLES
    pc,           \* position in Invoke: idle, lookup, build, client, auth, call, iter, wait, done, panicked
    tool,         \* the tool invoked
    data,         \* the raw invocation data
    source,       \* the source of the tool
    accessToken,  \* the caller's access token
    req,          \* the remote request built: <<>> or <<request>>
    client,       \* the dataScanClient variable: <<>> (nil) or <<client>>
    creator,      \* the dataplexClientCreator variable: <<>> (nil) or <<"creator">>
    tokenParsed,  \* whether ParseBearerToken was called
    calls,        \* the remote calls made: records [method, client, req]
    yielded,      \* the data scans the iterator yielded, in order
    buffered,     \* the scans left in the iterator's current page
    pages,        \* the pages the iterator fetched
    resp,         \* bigquery-list-data-scans: the Response being filled
    op,           \* bigquery-data-profile: the long-running operation: <<>> or <<data scan>>
    failed,       \* the steps of the pipeline that failed
    result,       \* Invoke's first return value: <<>> (nil) or <<value>>
    err,          \* Invoke's second return value: <<>> (nil) or <<message>>
    remoteErr,    \* the error the remote service returned: <<>> or <<error>>
    nexts,        \* bigquery-list-data-scans: the calls of it.Next() made
    resourceString, \* ExtractType: its argument
    extracted     \* ExtractType: <<>> before the call, <<returned value>> after it

vars == <<pc, tool, data, source, accessToken, req, client, creator, tokenParsed,
          calls, yielded, buffered, pages, resp, op, failed, result, err,
          remoteErr, nexts, resourceString, extracted>>

\* ------------------------------------------------------------ Invoke
\* The state before any invocation: the tool is constructed, nothing is called.
Init ==
    /\ pc = "idle"
    /\ tool = GetInfo
    /\ data = [name |-> ""]
    /\ source = [ok |-> FALSE, project |-> "src-a", useClientAuth |-> FALSE]
    /\ accessToken = [scheme |-> "Basic", cred |-> "tokA"]
    /\ req = <<>>
    /\ client = <<>>
    /\ creator = <<>>
    /\ tokenParsed = FALSE
    /\ calls = <<>>
    /\ yielded = <<>>
    /\ buffered = 0
    /\ pages = 0
    /\ resp = [DataScans |-> <<>>]
    /\ op = <<>>
    /\ failed = {}
    /\ result = <<>>
    /\ err = <<>>
    /\ remoteErr = <<>>
    /\ nexts = 0
    /\ resourceString = ""
    /\ extracted = <<>>

\* return res, e
Return(res, e) ==
    /\ pc' = "done"
    /\ result' = res
    /\ err' = e

\* A nil pointer is dereferenced or a nil function is called: Invoke returns
\* nothing, the goroutine panics.
Panic ==
    /\ pc' = "panicked"
    /\ UNCHANGED <<result, err>>

\* The host calls Invoke: a tool, its raw data, the source registered under
\* its source name and the caller's access token.
Start ==
    /\ pc = "idle"
    /\ \E t \in Tools :
         /\ tool' = t
         /\ data' \in DataOf(t)
    /\ source' \in Sources
    /\ accessToken' \in AccessTokens
    /\ pc' = "lookup"
    /\ UNCHANGED <<req, client, creator, tokenParsed, calls, yielded, buffered,
                   pages, resp, op, failed, result, err>>
    /\ UNCHANGED <<remoteErr, nexts, resourceString, extracted>>

\* Invoke has returned or panicked; a tool keeps nothing between invocations,
\* so the next one starts from the state of a fresh tool.
Finish ==
    /\ pc \in {"done", "panicked"}
    /\ pc' = "idle"
    /\ tool' = GetInfo
    /\ data' = [name |-> ""]
    /\ source' = [ok |-> FALSE, project |-> "src-a", useClientAuth |-> FALSE]
    /\ accessToken' = [scheme |-> "Basic", cred |-> "tokA"]
    /\ req' = <<>>
    /\ client' = <<>>
    /\ creator' = <<>>
    /\ tokenParsed' = FALSE
    /\ calls' = <<>>
    /\ yielded' = <<>>
    /\ buffered' = 0
    /\ pages' = 0
    /\ resp' = [DataScans |-> <<>>]
    /\ op' = <<>>
    /\ failed' = {}
    /\ result' = <<>>
    /\ err' = <<>>
    /\ remoteErr' = <<>>
    /\ nexts' = 0
    /\ UNCHANGED <<resourceString, extracted>>

\* tools.GetCompatibleSource: its error is returned as it is.
GetSource ==
    /\ pc = "lookup"
    /\ IF source.ok
       THEN /\ pc' = "build"
            /\ UNCHANGED <<result, err, failed>>
       ELSE /\ Return(<<>>, <<ErrSourceLookup>>)
            /\ failed' = failed \cup {"source"}
    /\ UNCHANGED <<tool, data, source, accessToken, req, client, creator,
                   tokenParsed, calls, yielded, buffered, pages, resp, op>>
    /\ UNCHANGED <<remoteErr, nexts, resourceString, extracted>>

\* The request is built without the check of the name.
GetInfoBuildUnchecked ==
    /\ pc = "build"
    /\ tool = GetInfo
    /\ req' = <<GetInfoRequest(GetInfoParams(data))>>
    /\ pc' = "client"
    /\ UNCHANGED <<tool, data, source, accessToken, client, creator, tokenParsed,
                   calls, yielded, buffered, pages, resp, op, failed, result, err>>
    /\ UNCHANGED <<remoteErr, nexts, resourceString, extracted>>

\* bigquery-get-data-scan-info: the name is checked, the request is built.
GetInfoBuild ==
    /\ pc = "build"
    /\ tool = GetInfo
    /\ IF GetInfoParams(data).name = ""
       THEN /\ Return(<<>>, <<ErrNameRequired>>)
            /\ UNCHANGED req
       ELSE /\ req' = <<GetInfoRequest(GetInfoParams(data))>>
            /\ pc' = "client"
            /\ UNCHANGED <<result, err>>
    /\ UNCHANGED <<tool, data, source, accessToken, client, creator, tokenParsed,
                   calls, yielded, buffered, pages, resp, op, failed>>
    /\ UNCHANGED <<remoteErr, nexts, resourceString, extracted>>

\* The request is built without the check of the location.
ListBuildUnchecked ==
    /\ pc = "build"
    /\ tool = ListScans
    /\ req' = <<ListRequest(ListParams(data), source.project)>>
    /\ pc' = "client"
    /\ UNCHANGED <<tool, data, source, accessToken, client, creator, tokenParsed,
                   calls, yielded, buffered, pages, resp, op, failed, result, err>>
    /\ UNCHANGED <<remoteErr, nexts, resourceString, extracted>>

\* bigquery-list-data-scans: the location is checked, the request is built.
ListBuild ==
    /\ pc = "build"
    /\ tool = ListScans
    /\ IF ListParams(data).location = ""
       THEN /\ Return(<<>>, <<ErrLocationRequired>>)
            /\ UNCHANGED req
       ELSE /\ req' = <<ListRequest(ListParams(data), source.project)>>
            /\ pc' = "client"
            /\ UNCHANGED <<result, err>>
    /\ UNCHANGED <<tool, data, source, accessToken, client, creator, tokenParsed,
                   calls, yielded, buffered, pages, resp, op, failed>>
    /\ UNCHANGED <<remoteErr, nexts, resourceString, extracted>>

\* bigquery-data-profile: the parameter map is dropped, the request is built.
ProfileBuild ==
    /\ pc = "build"
    /\ tool = Profile
    /\ req' = <<ProfileRequest>>
    /\ pc' = "client"
    /\ UNCHANGED <<tool, data, source, accessToken, client, creator, tokenParsed,
                   calls, yielded, buffered, pages, resp, op, failed, result, err>>
    /\ UNCHANGED <<remoteErr, nexts, resourceString, extracted>>

\* What dataScanClient and dataplexClientCreator hold after
\* source.MakeDataplexDataScanClient()() returned (c, cc, e): the error e is
\* assigned to the blank identifier, so the two values are kept whatever e is.
KeepClient(c, cc, e) == [client |-> c, creator |-> cc]

\* source.MakeDataplexDataScanClient()(): on success the source's client and
\* its client creator; on failure an error with whatever values come with it.
MakeClient ==
    /\ pc = "client"
    /\ \/ \E k \in {KeepClient(<<DefaultClient>>, <<"creator">>, <<>>)} :
            /\ client' = k.client
            /\ creator' = k.creator
            /\ UNCHANGED failed
       \/ \E c \in {<<>>, <<DefaultClient>>}, cc \in {<<>>, <<"creator">>} :
            LET k == KeepClient(c, cc, <<"failed to initialize dataplex client">>) IN
            /\ client' = k.client
            /\ creator' = k.creator
            /\ failed' = failed \cup {"client"}
    /\ pc' = "auth"
    /\ UNCHANGED <<tool, data, source, accessToken, req, tokenParsed, calls,
                   yielded, buffered, pages, resp, op, result, err>>
    /\ UNCHANGED <<remoteErr, nexts, resourceString, extracted>>

\* The flag of the source is not consulted: the source's client is always used.
UsePerCallerClientNever(src) == FALSE

\* Whether the caller's token replaces the source's client.
UsePerCallerClient(src) == src.useClientAuth

\* if source.UseClientAuthorization() { parse the token, create the client }
Authorize ==
    /\ pc = "auth"
    /\ IF UsePerCallerClient(source)
       THEN /\ tokenParsed' = TRUE
            /\ LET parsed == ParseBearerToken(accessToken) IN
               IF ~parsed.ok
               THEN /\ Return(<<>>, <<ErrParseToken>>)
                    /\ failed' = failed \cup {"token"}
                    /\ UNCHANGED client
               ELSE IF creator = <<>>
               THEN /\ Panic
                    /\ UNCHANGED <<client, failed>>
               ELSE \/ /\ client' = <<PerCallerClient(parsed.tokenStr)>>
                       /\ pc' = "call"
                       /\ UNCHANGED <<result, err, failed>>
                    \/ /\ Return(<<>>, <<ErrCreateClient>>)
                       /\ client' = <<>>
                       /\ failed' = failed \cup {"create"}
       ELSE /\ pc' = "call"
            /\ UNCHANGED <<tokenParsed, client, result, err, failed>>
    /\ UNCHANGED <<tool, data, source, accessToken, req, creator, calls,
                   yielded, buffered, pages, resp, op>>
    /\ UNCHANGED <<remoteErr, nexts, resourceString, extracted>>

\* A remote call as the service sees it.
Call(method) == [method |-> method, client |-> client[1], req |-> req[1]]

\* dataScanClient.GetDataScan(ctx, req) and the projection of its response.
GetDataScan ==
    /\ pc = "call"
    /\ tool = GetInfo
    /\ IF client = <<>>
       THEN /\ Panic
            /\ UNCHANGED <<calls, yielded, failed, remoteErr>>
       ELSE /\ calls' = Append(calls, Call("GetDataScan"))
            /\ \/ \E e \in RemoteErrors :
                    /\ Return(<<>>, <<GetInfoCallError(e, source.project)>>)
                    /\ failed' = failed \cup {"remote"}
                    /\ remoteErr' = <<e>>
                    /\ UNCHANGED yielded
               \/ \E scan \in RemoteScans :
                    /\ yielded' = <<scan>>
                    /\ Return(<<GetInfoResponse(scan)>>, <<>>)
                    /\ UNCHANGED <<failed, remoteErr>>
    /\ UNCHANGED <<tool, data, source, accessToken, req, client, creator,
                   tokenParsed, buffered, pages, resp, op>>
    /\ UNCHANGED <<nexts, resourceString, extracted>>

\* it := dataScanClient.ListDataScans(ctx, req): the iterator is created, no
\* page is fetched yet.
ListDataScans ==
    /\ pc = "call"
    /\ tool = ListScans
    /\ IF client = <<>>
       THEN /\ Panic
            /\ UNCHANGED calls
       ELSE /\ calls' = Append(calls, Call("ListDataScans"))
            /\ pc' = "iter"
            /\ UNCHANGED <<result, err>>
    /\ UNCHANGED <<tool, data, source, accessToken, req, client, creator,
                   tokenParsed, yielded, buffered, pages, resp, op, failed>>
    /\ UNCHANGED <<remoteErr, nexts, resourceString, extracted>>

\* The most scans the service puts in one page: the request's page size, or
\* the service's own choice when the request gives none.
PageLimit(r) == IF r.PageSize > 0 THEN r.PageSize ELSE MaxScans

\* The item replaces the list instead of extending it.
AppendItemOverwrites(r, scan) == [DataScans |-> <<DataScanItem(scan)>>]

\* resp.DataScans = append(resp.DataScans, item)
AppendItem(r, scan) == [DataScans |-> Append(r.DataScans, DataScanItem(scan))]

\* it.Next() yields a data scan, from the page it holds or from the next page
\* it fetches; the item of the scan is appended to the response.
ListYield ==
    /\ pc = "iter"
    /\ Len(yielded) < MaxScans
    /\ \/ /\ buffered > 0
          /\ buffered' = buffered - 1
          /\ UNCHANGED pages
       \/ /\ buffered = 0
          /\ \E n \in 1..(MaxScans - Len(yielded)) :
               /\ n <= PageLimit(req[1])
               /\ buffered' = n - 1
          /\ pages' = pages + 1
    /\ \E scan \in RemoteScans :
         /\ yielded' = Append(yielded, scan)
         /\ resp' = AppendItem(resp, scan)
    /\ UNCHANGED <<pc, tool, data, source, accessToken, req, client, creator,
                   tokenParsed, calls, op, failed, result, err>>
    /\ nexts' = nexts + 1
    /\ UNCHANGED <<remoteErr, resourceString, extracted>>

\* it.Next() returns iterator.Done: the loop ends, the response is returned.
ListDone ==
    /\ pc = "iter"
    /\ buffered = 0
    /\ Return(<<resp>>, <<>>)
    /\ UNCHANGED <<tool, data, source, accessToken, req, client, creator,
                   tokenParsed, calls, yielded, buffered, pages, resp, op, failed>>
    /\ nexts' = nexts + 1
    /\ UNCHANGED <<remoteErr, resourceString, extracted>>

\* The scans collected so far are returned with the error.
ListFailKeepsCollected ==
    /\ pc = "iter"
    /\ buffered = 0
    /\ \E e \in RemoteErrors :
         /\ Return(<<resp>>, <<ListIterError(e)>>)
         /\ remoteErr' = <<e>>
    /\ failed' = failed \cup {"remote"}
    /\ UNCHANGED <<tool, data, source, accessToken, req, client, creator,
                   tokenParsed, calls, yielded, buffered, pages, resp, op>>
    /\ nexts' = nexts + 1
    /\ UNCHANGED <<resourceString, extracted>>

\* it.Next() returns another error: it is wrapped and returned.
ListFail ==
    /\ pc = "iter"
    /\ buffered = 0
    /\ \E e \in RemoteErrors :
         /\ Return(<<>>, <<ListIterError(e)>>)
         /\ remoteErr' = <<e>>
    /\ failed' = failed \cup {"remote"}
    /\ UNCHANGED <<tool, data, source, accessToken, req, client, creator,
                   tokenParsed, calls, yielded, buffered, pages, resp, op>>
    /\ nexts' = nexts + 1
    /\ UNCHANGED <<resourceString, extracted>>

\* The data scan is returned as soon as the operation is started, without the
\* wait on it.
CreateDataScanWithoutWait ==
    /\ pc = "call"
    /\ tool = Profile
    /\ client # <<>>
    /\ calls' = Append(calls, Call("CreateDataScan"))
    /\ op' = <<[done |-> FALSE, scan |-> <<>>]>>
    /\ \E scan \in RemoteScans : Return(<<scan>>, <<>>)
    /\ UNCHANGED <<tool, data, source, accessToken, req, client, creator,
                   tokenParsed, yielded, buffered, pages, resp, failed, remoteErr>>
    /\ UNCHANGED <<nexts, resourceString, extracted>>

\* op, err := dataScanClient.CreateDataScan(ctx, req)
CreateDataScan ==
    /\ pc = "call"
    /\ tool = Profile
    /\ IF client = <<>>
       THEN /\ Panic
            /\ UNCHANGED <<calls, op, failed, remoteErr>>
       ELSE /\ calls' = Append(calls, Call("CreateDataScan"))
            /\ \/ \E e \in RemoteErrors :
                    /\ Return(<<>>, <<ProfileCallError(e, source.project)>>)
                    /\ failed' = failed \cup {"remote"}
                    /\ remoteErr' = <<e>>
                    /\ UNCHANGED op
               \/ /\ op' = <<[done |-> FALSE, scan |-> <<>>]>>
                  /\ pc' = "wait"
                  /\ UNCHANGED <<result, err, failed, remoteErr>>
    /\ UNCHANGED <<tool, data, source, accessToken, req, client, creator,
                   tokenParsed, yielded, buffered, pages, resp>>
    /\ UNCHANGED <<nexts, resourceString, extracted>>

\* resp, err := op.Wait(ctx)
WaitOperation ==
    /\ pc = "wait"
    /\ calls' = Append(calls, Call("Wait"))
    /\ \/ \E e \in RemoteErrors :
            /\ Return(<<>>, <<ProfileCallError(e, source.project)>>)
            /\ failed' = failed \cup {"remote"}
            /\ remoteErr' = <<e>>
            /\ UNCHANGED op
       \/ \E scan \in RemoteScans :
            /\ op' = <<[done |-> TRUE, scan |-> <<scan>>]>>
            /\ Return(<<scan>>, <<>>)
            /\ UNCHANGED <<failed, remoteErr>>
    /\ UNCHANGED <<tool, data, source, accessToken, req, client, creator,
                   tokenParsed, yielded, buffered, pages, resp>>
    /\ UNCHANGED <<nexts, resourceString, extracted>>

Next ==
    \/ Start
    \/ Finish
    \/ GetSource
    \/ GetInfoBuild
    \/ ListBuild
    \/ ProfileBuild
    \/ MakeClient
    \/ Authorize
    \/ GetDataScan
    \/ ListDataScans
    \/ ListYield
    \/ ListDone
    \/ ListFail
    \/ CreateDataScan
    \/ WaitOperation

Spec == Init /\ [][Next]_vars

\* ---------------------------------------------------------- ExtractType
\* ExtractType is called by no Invoke: it is followed on its own, from any of
\* the sampled arguments.
InitExtract ==
    /\ pc = "idle"
    /\ tool = GetInfo
    /\ data = [name |-> ""]
    /\ source = [ok |-> FALSE, project |-> "src-a", useClientAuth |-> FALSE]
    /\ accessToken = [scheme |-> "Basic", cred |-> "tokA"]
    /\ req = <<>>
    /\ client = <<>>
    /\ creator = <<>>
    /\ tokenParsed = FALSE
    /\ calls = <<>>
    /\ yielded = <<>>
    /\ buffered = 0
    /\ pages = 0
    /\ resp = [DataScans |-> <<>>]
    /\ op = <<>>
    /\ failed = {}
    /\ result = <<>>
    /\ err = <<>>
    /\ remoteErr = <<>>
    /\ nexts = 0
    /\ resourceString \in ResourceStrings
    /\ extracted = <<>>

\* ExtractType(resourceString) is called and returns.
CallExtractType ==
    /\ extracted = <<>>
    /\ extracted' = <<ExtractType(resourceString)>>
    /\ UNCHANGED <<pc, tool, data, source, accessToken, req, client, creator,
                   tokenParsed, calls, yielded, buffered, pages, resp, op, failed,
                   result, err, remoteErr, nexts, resourceString>>

NextExtract == CallExtractType

SpecExtract == InitExtract /\ [][NextExtract]_vars

\* ===================================================================
\* Properties
\* ===================================================================
\* Invoke has ended, by returning or by panicking.
Ended == pc \in {"done", "panicked"}

\* C1: for every tool, every remote call of an invocation carries the one
\* request the invocation built, and that request depends on the invocation's
\* inputs: some other parameter map or source project would have given another
\* request. (bigquery-data-profile sends the same literal request whatever
\* the inputs are.)
C1_RequestFromParameters ==
    req # <<>> =>
        /\ \A i \in 1..Len(calls) : calls[i].req = req[1]
        /\ \E d \in DataOf(tool), sp \in SourceProjects :
             BuildRequest(tool, d, sp) # req[1]

\* C2: every invocation ends with a result and no error, or with no result and
\* an error; a failed step always gives no result and an error; and no remote
\* call is made once the acquisition of the client from the source failed.
C2_OneOutcomeOnFailure ==
    /\ Ended => \/ (result # <<>> /\ err = <<>>)
                \/ (result = <<>> /\ err # <<>>)
    /\ (Ended /\ failed # {}) => (pc = "done" /\ result = <<>> /\ err # <<>>)
    /\ "client" \in failed => calls = <<>>

\* C3: every remote call is made with the client the caller's bearer token
\* gave when the source uses client authorization, and with the source's
\* default client otherwise; without client authorization the access token is
\* never parsed.
C3_ClientChosenByFlag ==
    /\ \A i \in 1..Len(calls) :
         IF source.useClientAuth
         THEN /\ calls[i].client = [kind |-> "per-caller", token |-> accessToken.cred]
              /\ accessToken.scheme = "Bearer"
              /\ tokenParsed
         ELSE calls[i].client = [kind |-> "default", token |-> ""]
    /\ (pc # "idle" /\ ~source.useClientAuth) => ~tokenParsed

\* C3 witness: a call with the per-caller client has returned a result.
C3_Witness ==
    /\ pc = "done"
    /\ source.useClientAuth
    /\ calls # <<>>
    /\ calls[1].client.kind = "per-caller"
    /\ result # <<>>

\* The name of DataScan state st, as the service's enumeration gives it.
C4_StateName(st) ==
    <<"STATE_UNSPECIFIED", "ACTIVE", "CREATING", "DELETING", "ACTION_REQUIRED">>[st + 1]

\* C4: a successful listing returns one item for every scan the iterator
\* yielded, in the order it yielded them, each with the scan's name, creation
\* time and state.
C4_ListReturnsEveryScan ==
    (tool = ListScans /\ pc = "done" /\ err = <<>>) =>
        /\ result # <<>>
        /\ Len(result[1].DataScans) = Len(yielded)
        /\ \A i \in 1..Len(yielded) :
             LET item == result[1].DataScans[i]
                 scan == yielded[i]
             IN /\ item.Name = scan.name
                /\ item.State = C4_StateName(scan.state)
                /\ scan.createTime # <<>> =>
                     /\ item.CreateTime.sec = scan.createTime[1].seconds
                     /\ item.CreateTime.nsec = scan.createTime[1].nanos

\* C4 witness: a listing over at least two pages returned more items than the
\* page size of its request.
C4_Witness ==
    /\ pc = "done"
    /\ tool = ListScans
    /\ result # <<>>
    /\ req[1].PageSize > 0
    /\ pages >= 2
    /\ Len(result[1].DataScans) > req[1].PageSize
    /\ Len(result[1].DataScans) >= 3
    /\ result[1].DataScans[1].Name # result[1].DataScans[2].Name

\* C5, as stated: a listing with an empty location ends with the error
\* "location parameter is required", no result, no client and no remote call.
C5_EmptyLocationAsStated ==
    (tool = ListScans /\ Ended /\ data.location = "") =>
        /\ err = <<"location parameter is required">>
        /\ result = <<>>
        /\ client = <<>> /\ creator = <<>> /\ ~tokenParsed
        /\ calls = <<>>

\* C5, amended: a listing with an empty location ends with no result, an
\* error, no client and no remote call; the error is "location parameter is
\* required" when the source lookup succeeded and the lookup's error when it
\* failed.
C5_EmptyLocation ==
    (tool = ListScans /\ pc \notin {"idle", "lookup", "build"} /\ data.location = "") =>
        /\ pc = "done"
        /\ err = IF source.ok THEN <<"location parameter is required">>
                 ELSE <<ErrSourceLookup>>
        /\ result = <<>>
        /\ client = <<>> /\ creator = <<>> /\ ~tokenParsed
        /\ calls = <<>>

\* C5 witness: a listing with an empty location and a source that was found
\* has returned.
C5_Witness ==
    /\ pc = "done"
    /\ tool = ListScans
    /\ data.location = ""
    /\ source.ok
    /\ err = <<"location parameter is required">>

\* C6: bigquery-get-data-scan-info with an empty name ends with no result, an
\* error, no client and no remote call.
C6_EmptyName ==
    (tool = GetInfo /\ pc \notin {"idle", "lookup", "build"} /\ data.name = "") =>
        /\ pc = "done"
        /\ err # <<>>
        /\ result = <<>>
        /\ client = <<>> /\ creator = <<>> /\ ~tokenParsed
        /\ calls = <<>>

\* C6 witness: the name check itself has rejected an empty name.
C6_Witness ==
    /\ pc = "done"
    /\ tool = GetInfo
    /\ data.name = ""
    /\ source.ok
    /\ err = <<"name is required.">>

\* C7: the parent of a listing request is
\* "projects/<project>/locations/<location>", the project being the project
\* parameter when it is given and not empty, the source's project otherwise.
C7_ListParent ==
    (tool = ListScans /\ req # <<>>) =>
        LET given == IF data.project = <<>> THEN "" ELSE data.project[1]
            project == IF given # "" THEN given ELSE source.project
        IN req[1].Parent = "projects/" \o project \o "/locations/" \o data.location

\* C7 witness: a listing without a project parameter was sent with the
\* source's project.
C7_Witness ==
    /\ tool = ListScans
    /\ calls # <<>>
    /\ data.project = <<>>
    /\ calls[1].req.Parent = "projects/src-b/locations/us"

\* C8: a listing request has no filter when the state parameter is omitted or
\* empty, and the filter state="<state>" when it is given.
C8_ListFilter ==
    (tool = ListScans /\ req # <<>>) =>
        LET given == IF data.state = <<>> THEN "" ELSE data.state[1]
        IN IF given = "" THEN req[1].Filter = ""
           ELSE req[1].Filter = "state=\"" \o given \o "\""

\* C8 witness: a listing for the state ACTIVE was sent with its filter.
C8_Witness ==
    /\ tool = ListScans
    /\ calls # <<>>
    /\ data.state = <<"ACTIVE">>
    /\ calls[1].req.Filter = "state=\"ACTIVE\""

\* C9: bigquery-get-data-scan-info asks for the scan of the given name in the
\* FULL view, and on success returns the fetched scan's name, display name,
\* data-source resource (empty when it has none) and profile result (nil when
\* it has none).
C9_GetInfoProjection ==
    tool = GetInfo =>
        /\ \A i \in 1..Len(calls) :
             /\ calls[i].method = "GetDataScan"
             /\ calls[i].req = [Name |-> data.name, View |-> "FULL"]
             /\ data.name # ""
        /\ (pc = "done" /\ err = <<>>) =>
             /\ Len(calls) = 1
             /\ Len(yielded) = 1
             /\ result # <<>>
             /\ LET scan == yielded[1]
                    res == result[1]
                IN /\ res.DataScanName = scan.name
                   /\ res.DisplayName = scan.displayName
                   /\ res.DataSource =
                        IF scan.data = <<>> THEN ""
                        ELSE IF scan.data[1].kind = "resource" THEN scan.data[1].value
                        ELSE ""
                   /\ res.Result = scan.profile

\* C9 witness: a scan without data source and without profile result was
\* fetched and returned.
C9_Witness ==
    /\ pc = "done"
    /\ tool = GetInfo
    /\ result # <<>>
    /\ yielded[1].data = <<>>
    /\ yielded[1].profile = <<>>
    /\ result[1].DataSource = ""
    /\ result[1].Result = <<>>
    /\ result[1].DataScanName = "projects/p1/locations/us/dataScans/s3"

\* C10: the page size of a listing request equals the pageSize parameter, 5
\* when the caller gives none, for every value of a Go int.
C10_PageSizeKept ==
    (tool = ListScans /\ req # <<>>) =>
        FromInt32(req[1].PageSize) =
            IF data.pageSize = <<>> THEN Int64(0, 5) ELSE data.pageSize[1]

\* Whether the string sub occurs in the string s.
Contains(s, sub) ==
    \E i \in 1..(Len(s) - Len(sub) + 1) : SubSeq(s, i, i + Len(sub) - 1) = sub

\* C11: for every tool, when a remote call fails, the error Invoke returns
\* includes the message of the remote error, for gRPC status errors and for
\* the others.
C11_RemoteErrorWrapped ==
    (pc = "done" /\ remoteErr # <<>>) =>
        /\ err # <<>>
        /\ Contains(err[1], remoteErr[1].msg)

\* C12: a listing whose iterator returns an error other than Done returns no
\* result and the error "iterator.Next: <the iterator's error>", whatever it
\* had collected; and it.Next() is called once for every scan yielded and once
\* more for the Done or the error that ends the loop, never after it.
C12_ListStopsAtFirstError ==
    tool = ListScans =>
        /\ pc = "iter" => nexts = Len(yielded)
        /\ pc # "iter" => nexts \in {0, Len(yielded) + 1}
        /\ (pc = "done" /\ calls # <<>>) => nexts = Len(yielded) + 1
        /\ (pc = "done" /\ remoteErr # <<>>) =>
             /\ result = <<>>
             /\ err = <<"iterator.Next: " \o remoteErr[1].msg>>

\* C12 witness: the iterator failed after it had yielded two scans, which the
\* response being filled held.
C12_Witness ==
    /\ pc = "done"
    /\ tool = ListScans
    /\ remoteErr # <<>>
    /\ Len(yielded) = 2
    /\ Len(resp.DataScans) = 2
    /\ nexts = 3
    /\ result = <<>>

\* The methods of the remote calls made, in order.
C13_Methods == [i \in 1..Len(calls) |-> calls[i].method]

\* C13: bigquery-data-profile calls CreateDataScan first and waits on the
\* operation only when CreateDataScan succeeded; a result is returned only
\* after the wait succeeded and is the data scan of the completed operation;
\* when CreateDataScan or the wait fails, no result is returned and the error
\* is "failed to create data scan for project <the source's project, quoted>".
C13_ProfileWaitsForOperation ==
    tool = Profile =>
        /\ C13_Methods \in {<<>>, <<"CreateDataScan">>, <<"CreateDataScan", "Wait">>}
        /\ Len(calls) = 2 => op # <<>>
        /\ (Len(calls) = 1 /\ remoteErr # <<>>) => (pc = "done" /\ op = <<>>)
        /\ (pc = "done" /\ result # <<>>) =>
             /\ Len(calls) = 2
             /\ op # <<>>
             /\ op[1].done
             /\ result = op[1].scan
             /\ err = <<>>
        /\ (pc = "done" /\ remoteErr # <<>>) =>
             /\ result = <<>>
             /\ err = <<"failed to create data scan for project \"" \o source.project \o "\"">>

\* C13 witness: the operation has completed and its data scan is returned.
C13_Witness ==
    /\ pc = "done"
    /\ tool = Profile
    /\ result # <<>>
    /\ op # <<>>
    /\ op[1].done
    /\ C13_Methods = <<"CreateDataScan", "Wait">>

\* The label the claim gives for the segment seg.
C14_Label(seg) ==
    IF seg = "bigquery-connection" THEN "CONNECTION"
    ELSE IF seg = "bigquery-data-policy" THEN "POLICY"
    ELSE IF seg = "bigquery-dataset" THEN "DATASET"
    ELSE IF seg = "bigquery-model" THEN "MODEL"
    ELSE IF seg = "bigquery-routine" THEN "ROUTINE"
    ELSE IF seg = "bigquery-table" THEN "TABLE"
    ELSE IF seg = "bigquery-view" THEN "VIEW"
    ELSE ""

\* Whether the string s holds no "/".
C14_NoSlash(s) == \A i \in 1..Len(s) : SubSeq(s, i, i) # "/"

\* C14: ExtractType returns a string without "/" unchanged; for a string
\* <prefix>/<segment>, the segment without "/", it returns the label of the
\* segment: CONNECTION, POLICY, DATASET, MODEL, ROUTINE, TABLE or VIEW for the
\* seven known keys, the empty string for any other segment, the empty one
\* included.
C14_ExtractType ==
    /\ extracted # <<>> =>
        IF C14_NoSlash(resourceString)
        THEN extracted[1] = resourceString
        ELSE \E i \in 1..Len(resourceString) :
               /\ SubSeq(resourceString, i, i) = "/"
               /\ C14_NoSlash(SubSeq(resourceString, i + 1, Len(resourceString)))
               /\ extracted[1] = C14_Label(SubSeq(resourceString, i + 1, Len(resourceString)))
    /\ (extracted # <<>> /\ resourceString = "bigquery-table") =>
         extracted[1] = "bigquery-table"
    /\ (extracted # <<>> /\ resourceString = "bigquery-table/") => extracted[1] = ""
    /\ (extracted # <<>> /\ resourceString = "x/y/bigquery-view") => extracted[1] = "VIEW"

\* C14 witness: a known key after the last of several "/" gave its label.
C14_Witness ==
    /\ resourceString = "//bigquery.googleapis.com/projects/p1/bigquery-table"
    /\ extracted = <<"TABLE">>

====
